---- MODULE Spec2Model ----
(***************************************************************************)
(* Window registry of calc-app (src/context/AppsContext.tsx).              *)
(*                                                                         *)
(* The registry is the pair of React states openedApps / focusedWindowId   *)
(* of AppsContextProvider.  Every action of the context is modelled as one *)
(* step: the handler runs against the render snapshot it closed over, the  *)
(* updaters it queued are applied in queue order, and the provider         *)
(* re-renders.  In Spec each action is its own transaction, so the         *)
(* snapshot a handler reads is the state the previous action left.         *)
(***************************************************************************)
EXTENDS Integers, Sequences, FiniteSets, TLC

\* ---- bounds of the model ------------------------------------------------
MaxOpen == 2        \* windows open at the same time
MaxId   == 2        \* identifiers uuidv4() hands out in one behaviour
MaxZ    == 3        \* largest zIndex a behaviour may assign

\* ---- values --------------------------------------------------------------
\* focusedWindowId: string | null.  Identifiers are 1, 2, ...; null is NULL.
NULL == 0 - 1
\* an identifier that uuidv4() never returned (a stale or foreign id)
UnknownId == 0

WindowAppTypes == {"calculator", "tasks", "other-app"}

VARIABLES
  openedApps,       \* useState<WindowApp[]>([])
  focusedWindowId,  \* useState<string | null>(null)
  nextId,           \* the next identifier uuidv4() returns
  maxAssigned,      \* history: the largest zIndex any call has assigned
  last              \* history: the last action, its arguments and pre-state

vars == <<openedApps, focusedWindowId, nextId, maxAssigned, last>>

\* ---- helpers -------------------------------------------------------------
Ids(apps) == {apps[i].id : i \in 1..Len(apps)}

ZIndexes(apps) == {apps[i].zIndex : i \in 1..Len(apps)}

Max2(a, b) == IF a < b THEN b ELSE a

\* openedApps.reduce((acc, {zIndex}) => acc < zIndex ? zIndex : acc, 0)
RECURSIVE getBiggestZIndexFrom(_, _, _)
getBiggestZIndexFrom(apps, i, acc) ==
  IF i > Len(apps) THEN acc
  ELSE getBiggestZIndexFrom(apps, i + 1,
                            IF acc < apps[i].zIndex THEN apps[i].zIndex ELSE acc)

getBiggestZIndex(apps) == getBiggestZIndexFrom(apps, 1, 0)

\* the updater queued by increaseZIndex(id), biggestZIndex read beforehand
increaseZIndexNoBump(biggestZIndex, id, prev) ==
  [i \in 1..Len(prev) |->
     IF prev[i].id = id THEN [prev[i] EXCEPT !.zIndex = biggestZIndex]
     ELSE prev[i]]

increaseZIndexSkipTop(biggestZIndex, id, prev) ==
  [i \in 1..Len(prev) |->
     IF prev[i].id = id /\ prev[i].zIndex < biggestZIndex
     THEN [prev[i] EXCEPT !.zIndex = biggestZIndex + 1]
     ELSE prev[i]]

increaseZIndexMoveToEnd(biggestZIndex, id, prev) ==
  SelectSeq(prev, LAMBDA app : app.id # id) \o
  [i \in 1..Cardinality({j \in 1..Len(prev) : prev[j].id = id}) |->
     [(CHOOSE app \in {prev[j] : j \in 1..Len(prev)} : app.id = id)
        EXCEPT !.zIndex = biggestZIndex + 1]]

increaseZIndexUpdater(biggestZIndex, id, prev) ==
  [i \in 1..Len(prev) |->
     IF prev[i].id = id THEN [prev[i] EXCEPT !.zIndex = biggestZIndex + 1]
     ELSE prev[i]]

\* increaseZIndex(id): early return on a falsy id, else queue the updater
increaseZIndex(snapshot, id, prev) ==
  IF id = NULL THEN prev
  ELSE increaseZIndexUpdater(getBiggestZIndex(snapshot), id, prev)

\* the switch of createApp
appPropsWrongSize(type) ==
  CASE type = "calculator" ->
         [iconSrc |-> "./calc-icon.png", displayName |-> "Calculator",
          minSize |-> [width |-> "600px", height |-> "420px"]]
    [] type = "tasks" ->
         [iconSrc |-> "./tasks-icon.png", displayName |-> "Tasks",
          minSize |-> [width |-> "600px", height |-> "420px"]]
    [] type = "other-app" ->
         [iconSrc |-> "./vite.svg", displayName |-> "Other App",
          minSize |-> [width |-> "420px", height |-> "100px"]]

appProps(type) ==
  CASE type = "calculator" ->
         [iconSrc |-> "./calc-icon.png", displayName |-> "Calculator",
          minSize |-> [width |-> "420px", height |-> "600px"]]
    [] type = "tasks" ->
         [iconSrc |-> "./tasks-icon.png", displayName |-> "Tasks",
          minSize |-> [width |-> "600px", height |-> "420px"]]
    [] type = "other-app" ->
         [iconSrc |-> "./vite.svg", displayName |-> "Other App",
          minSize |-> [width |-> "420px", height |-> "100px"]]

\* createApp(type): {...initialProps, ...appProps}
createApp(snapshot, type, id) ==
  [id           |-> id,
   type         |-> type,
   isFullscreen |-> FALSE,
   isMinimalize |-> FALSE,
   zIndex       |-> getBiggestZIndex(snapshot) + 1,
   iconSrc      |-> appProps(type).iconSrc,
   displayName  |-> appProps(type).displayName,
   minSize      |-> appProps(type).minSize]

\* prev.filter((app) => app.id !== id)
closeAppDropFirst(id, prev) ==
  IF id \in Ids(prev) THEN Tail(prev) ELSE prev

closeAppUpdater(id, prev) == SelectSeq(prev, LAMBDA app : app.id # id)

\* the openedApps updater of setIsMinimalize
setIsMinimalizeRelabel(id, isMinimalize, prev) ==
  [i \in 1..Len(prev) |->
     IF prev[i].id = id
     THEN [prev[i] EXCEPT !.isMinimalize = isMinimalize,
                          !.displayName = "Minimized"]
     ELSE prev[i]]

setIsMinimalizeUpdater(id, isMinimalize, prev) ==
  [i \in 1..Len(prev) |->
     IF prev[i].id = id THEN [prev[i] EXCEPT !.isMinimalize = isMinimalize]
     ELSE prev[i]]

\* the setFocusedWindowId(null) nested in that updater: it runs once an
\* entity matches, when id is the focusedWindowId the callback closed over
setIsMinimalizeFocusHoisted(snapshotFocus, id, prev, focus) ==
  IF id = snapshotFocus THEN NULL ELSE focus

setIsMinimalizeFocusAlways(snapshotFocus, id, prev, focus) ==
  IF id \in Ids(prev) THEN NULL ELSE focus

setIsMinimalizeFocus(snapshotFocus, id, prev, focus) ==
  IF id \in Ids(prev) /\ id = snapshotFocus THEN NULL ELSE focus

\* the openedApps updater of setIsFullscreen
setIsFullscreenRestores(id, isFullscreen, prev) ==
  [i \in 1..Len(prev) |->
     IF prev[i].id = id
     THEN [prev[i] EXCEPT !.isFullscreen = isFullscreen,
                          !.isMinimalize = FALSE]
     ELSE prev[i]]

setIsFullscreenUpdater(id, isFullscreen, prev) ==
  [i \in 1..Len(prev) |->
     IF prev[i].id = id THEN [prev[i] EXCEPT !.isFullscreen = isFullscreen]
     ELSE prev[i]]

\* ---- history -------------------------------------------------------------
NoType == "none"

Call(op, id, val, type) ==
  [op |-> op, id |-> id, val |-> val, type |-> type,
   apps |-> openedApps, focus |-> focusedWindowId, assigned |-> maxAssigned,
   created |-> IF op = "openApp"
               THEN <<createApp(openedApps, type, id)>> ELSE <<>>]

\* identifiers a caller can hold: every id handed out so far, and a foreign one
ArgIds == 0..(nextId - 1)

\* ---- the registry --------------------------------------------------------
Init ==
  /\ openedApps = <<>>
  /\ focusedWindowId = NULL
  /\ nextId = 1
  /\ maxAssigned = 0
  /\ last = [op |-> "init", id |-> NULL, val |-> FALSE, type |-> NoType,
             apps |-> <<>>, focus |-> NULL, assigned |-> 0,
             created |-> <<>>]

\* openApp(type): createApp, append, handleSetFocusedWindowId(newApp.id)
openApp(type) ==
  /\ Len(openedApps) < MaxOpen
  /\ nextId <= MaxId
  /\ getBiggestZIndex(openedApps) + 1 <= MaxZ
  /\ LET newApp   == createApp(openedApps, type, nextId)
         appended == Append(openedApps, newApp)
     IN /\ openedApps' = increaseZIndex(openedApps, newApp.id, appended)
        /\ focusedWindowId' = newApp.id
        /\ maxAssigned' = Max2(maxAssigned, getBiggestZIndex(openedApps) + 1)
  /\ nextId' = nextId + 1
  /\ last' = Call("openApp", nextId, FALSE, type)

\* handleSetFocusedWindowId(id): increaseZIndex(id); setFocusedWindowId(id)
handleSetFocusedWindowId(id) ==
  /\ id \in Ids(openedApps) => getBiggestZIndex(openedApps) + 1 <= MaxZ
  /\ openedApps' = increaseZIndex(openedApps, id, openedApps)
  /\ focusedWindowId' = id
  /\ maxAssigned' = IF id \in Ids(openedApps)
                    THEN Max2(maxAssigned, getBiggestZIndex(openedApps) + 1)
                    ELSE maxAssigned
  /\ nextId' = nextId
  /\ last' = Call("focus", id, FALSE, NoType)

closeAppClearsFocus(id) ==
  /\ openedApps' = closeAppUpdater(id, openedApps)
  /\ focusedWindowId' = IF id = focusedWindowId THEN NULL ELSE focusedWindowId
  /\ UNCHANGED <<nextId, maxAssigned>>
  /\ last' = Call("closeApp", id, FALSE, NoType)

closeApp(id) ==
  /\ openedApps' = closeAppUpdater(id, openedApps)
  /\ UNCHANGED <<focusedWindowId, nextId, maxAssigned>>
  /\ last' = Call("closeApp", id, FALSE, NoType)

closeAllApps ==
  /\ openedApps' = <<>>
  /\ UNCHANGED <<focusedWindowId, nextId, maxAssigned>>
  /\ last' = Call("closeAllApps", NULL, FALSE, NoType)

setIsMinimalize(id, isMinimalize) ==
  /\ openedApps' = setIsMinimalizeUpdater(id, isMinimalize, openedApps)
  /\ focusedWindowId' =
       setIsMinimalizeFocus(focusedWindowId, id, openedApps, focusedWindowId)
  /\ UNCHANGED <<nextId, maxAssigned>>
  /\ last' = Call("setIsMinimalize", id, isMinimalize, NoType)

setIsFullscreen(id, isFullscreen) ==
  /\ openedApps' = setIsFullscreenUpdater(id, isFullscreen, openedApps)
  /\ UNCHANGED <<focusedWindowId, nextId, maxAssigned>>
  /\ last' = Call("setIsFullscreen", id, isFullscreen, NoType)

Next ==
  \/ \E type \in WindowAppTypes : openApp(type)
  \/ \E id \in ArgIds \cup {NULL} : handleSetFocusedWindowId(id)
  \/ \E id \in ArgIds : closeApp(id)
  \/ closeAllApps
  \/ \E id \in ArgIds, v \in BOOLEAN : setIsMinimalize(id, v)
  \/ \E id \in ArgIds, v \in BOOLEAN : setIsFullscreen(id, v)

Spec == Init /\ [][Next]_vars

\* ---- the taskbar (App, minimalizedAppOnClick) ---------------------------
\* The handler issues its registry actions back-to-back from one render
\* snapshot.  The openedApps updaters run in queue order on the latest state;
\* biggestZIndex is read from the snapshot when increaseZIndex is called.
minimalizedAppOnClickNoRaise(snapshot, snapshotFocus, id, isMinimalize, prev) ==
  IF isMinimalize
  THEN setIsMinimalizeUpdater(id, FALSE, prev)
  ELSE IF id = snapshotFocus
  THEN increaseZIndex(snapshot, NULL, setIsMinimalizeUpdater(id, TRUE, prev))
  ELSE increaseZIndex(snapshot, id, prev)

minimalizedAppOnClickApps(snapshot, snapshotFocus, id, isMinimalize, prev) ==
  IF isMinimalize
  THEN increaseZIndex(snapshot, id, setIsMinimalizeUpdater(id, FALSE, prev))
  ELSE IF id = snapshotFocus
  THEN increaseZIndex(snapshot, NULL, setIsMinimalizeUpdater(id, TRUE, prev))
  ELSE increaseZIndex(snapshot, id, prev)

\* The setFocusedWindowId(null) nested in the setIsMinimalize updater takes
\* effect when React runs that updater: at once when the update is computed
\* eagerly, else during the next render, after the setFocusedWindowId calls
\* the handler queued.
minimalizedAppOnClickFocus(snapshotFocus, id, isMinimalize, prev, focus, eager) ==
  IF isMinimalize
  THEN IF eager
       THEN LET cleared == setIsMinimalizeFocus(snapshotFocus, id, prev, focus)
            IN  id
       ELSE setIsMinimalizeFocus(snapshotFocus, id, prev, id)
  ELSE IF id = snapshotFocus
  THEN IF eager
       THEN LET cleared == setIsMinimalizeFocus(snapshotFocus, id, prev, focus)
            IN  NULL
       ELSE setIsMinimalizeFocus(snapshotFocus, id, prev, NULL)
  ELSE id

\* does this click call handleSetFocusedWindowId(id) on an open window
minimalizedAppOnClickRaises(snapshotFocus, id, isMinimalize) ==
  isMinimalize \/ id # snapshotFocus

minimalizedAppOnClick(id, isMinimalize, eager) ==
  /\ minimalizedAppOnClickRaises(focusedWindowId, id, isMinimalize)
       => getBiggestZIndex(openedApps) + 1 <= MaxZ
  /\ openedApps' = minimalizedAppOnClickApps(openedApps, focusedWindowId,
                                             id, isMinimalize, openedApps)
  /\ focusedWindowId' =
       minimalizedAppOnClickFocus(focusedWindowId, id, isMinimalize,
                                  openedApps, focusedWindowId, eager)
  /\ maxAssigned' =
       IF minimalizedAppOnClickRaises(focusedWindowId, id, isMinimalize)
       THEN Max2(maxAssigned, getBiggestZIndex(openedApps) + 1)
       ELSE maxAssigned
  /\ nextId' = nextId
  /\ last' = Call("minimalizedAppOnClick", id, isMinimalize, NoType)

\* one taskbar entry per open window, built from the rendered entity
TaskbarClick ==
  \E i \in 1..Len(openedApps), eager \in BOOLEAN :
    minimalizedAppOnClick(openedApps[i].id, openedApps[i].isMinimalize, eager)

NextTaskbar ==
  \/ \E type \in WindowAppTypes : openApp(type)
  \/ \E id \in ArgIds \cup {NULL} : handleSetFocusedWindowId(id)
  \/ \E id \in ArgIds : closeApp(id)
  \/ closeAllApps
  \/ \E id \in ArgIds, v \in BOOLEAN : setIsMinimalize(id, v)
  \/ \E id \in ArgIds, v \in BOOLEAN : setIsFullscreen(id, v)
  \/ TaskbarClick

SpecTaskbar == Init /\ [][NextTaskbar]_vars

TypeOK ==
  /\ nextId \in 1..(MaxId + 1)
  /\ focusedWindowId \in (0..MaxId) \cup {NULL}
  /\ Len(openedApps) <= MaxOpen
  /\ \A i \in 1..Len(openedApps) :
       /\ openedApps[i].id \in 1..MaxId
       /\ openedApps[i].type \in WindowAppTypes
       /\ openedApps[i].zIndex \in 1..MaxZ
\* ---- properties ----------------------------------------------------------
\* the window the last call created or raised, as it is now
Affected == CHOOSE i \in 1..Len(openedApps) : openedApps[i].id = last.id

\* the last call assigned a zIndex: openApp, or focus on an open window
AssignedZIndex ==
  \/ last.op = "openApp"
  \/ last.op = "focus" /\ last.id \in Ids(last.apps)

\* the largest zIndex among apps, 0 when there is none
MaxZOf(apps) ==
  IF apps = <<>> THEN 0
  ELSE CHOOSE z \in ZIndexes(apps) : \A y \in ZIndexes(apps) : y <= z

\* apps without the entity id, in order
Without(apps, id) == SelectSeq(apps, LAMBDA app : app.id # id)

\* C1: at most one open window has the id focusedWindowId, and a non-null
\* focusedWindowId is the id of an entity in openedApps.
C1_FocusIsOpenWindow ==
  /\ Cardinality({i \in 1..Len(openedApps) :
                    openedApps[i].id = focusedWindowId}) <= 1
  /\ focusedWindowId # NULL => focusedWindowId \in Ids(openedApps)

\* C2 as stated: the zIndex an openApp/focus call assigns is strictly greater
\* than every zIndex assigned by an earlier call.
C2_AboveEveryEarlierZIndex ==
  AssignedZIndex => openedApps[Affected].zIndex > last.assigned

\* C2 amended: the zIndex an openApp/focus call assigns is strictly greater
\* than the zIndex of every window that was open when the call was made.
C2_AboveEveryOpenZIndex ==
  AssignedZIndex =>
    \A i \in 1..Len(last.apps) :
      openedApps[Affected].zIndex > last.apps[i].zIndex

C2_Witness ==
  /\ last.op = "focus"
  /\ last.id \in Ids(last.apps)
  /\ Len(last.apps) = 2
  /\ last.apps[1].id = last.id
  /\ last.apps[1].zIndex < last.apps[2].zIndex

\* C3: no two entities of openedApps have the same zIndex.
C3_ZIndexUnique ==
  \A i, j \in 1..Len(openedApps) :
    i # j => openedApps[i].zIndex # openedApps[j].zIndex

C3_Witness ==
  /\ Len(openedApps) = 2
  /\ last.op = "focus"
  /\ last.id \in Ids(last.apps)
  /\ last.id # last.focus

\* C4: setIsMinimalize(id, true) on the open focused window leaves
\* focusedWindowId null; with an id other than focusedWindowId it leaves
\* focusedWindowId as it was.
C4_MinimizeClearsFocus ==
  (last.op = "setIsMinimalize" /\ last.val) =>
    /\ (last.id = last.focus /\ last.id \in Ids(last.apps))
         => focusedWindowId = NULL
    /\ last.id # last.focus => focusedWindowId = last.focus

C4_Witness ==
  /\ last.op = "setIsMinimalize" /\ last.val
  /\ last.id = last.focus
  /\ last.id \in Ids(last.apps)
  /\ Len(last.apps) = 2

\* C5: the focused window is not minimized.
C5_FocusedNotMinimized ==
  \A i \in 1..Len(openedApps) :
    openedApps[i].id = focusedWindowId => ~openedApps[i].isMinimalize

\* C6: closeApp(id) of an open window leaves one window fewer, none with
\* that id, the others unchanged and in place; closeApp(id) of an id that
\* is not open leaves openedApps as it was.
C6_CloseRemovesExactlyOne ==
  last.op = "closeApp" =>
    IF last.id \in Ids(last.apps)
    THEN /\ Len(openedApps) = Len(last.apps) - 1
         /\ last.id \notin Ids(openedApps)
         /\ openedApps = Without(last.apps, last.id)
    ELSE openedApps = last.apps

C6_Witness ==
  /\ last.op = "closeApp"
  /\ Len(last.apps) = 2
  /\ last.apps[2].id = last.id

\* C7: focus(id) with a non-null id that is not open changes neither
\* openedApps nor focusedWindowId.
C7_FocusUnknownIdNoOp ==
  (last.op = "focus" /\ last.id # NULL /\ last.id \notin Ids(last.apps)) =>
    /\ openedApps = last.apps
    /\ focusedWindowId = last.focus

\* C8: closeApp, setIsMinimalize and setIsFullscreen with an id that is not
\* open change neither openedApps nor focusedWindowId.
C8_UnknownIdNoOp ==
  (/\ last.op \in {"closeApp", "setIsMinimalize", "setIsFullscreen"}
   /\ last.id \notin Ids(last.apps)) =>
    /\ openedApps = last.apps
    /\ focusedWindowId = last.focus

C8_Witness ==
  /\ last.op = "setIsMinimalize" /\ last.val
  /\ last.id \notin Ids(last.apps)
  /\ last.focus = last.id
  /\ last.apps # <<>>

\* C9: openApp(type) appends one entity with a fresh id, both flags false
\* and zIndex one above the largest zIndex open before the call, leaves the
\* entities that were open unchanged, and focuses the new entity.
C9_OpenAppendsAndFocuses ==
  last.op = "openApp" =>
    /\ Len(openedApps) = Len(last.apps) + 1
    /\ SubSeq(openedApps, 1, Len(last.apps)) = last.apps
    /\ LET new == openedApps[Len(openedApps)]
       IN /\ new.id \notin Ids(last.apps)
          /\ new.type = last.type
          /\ new.isFullscreen = FALSE
          /\ new.isMinimalize = FALSE
          /\ new.zIndex = MaxZOf(last.apps) + 1
          /\ focusedWindowId = new.id

C9_Witness ==
  /\ last.op = "openApp"
  /\ Len(last.apps) = 1
  /\ last.apps[1].zIndex > 1
  /\ last.focus # last.apps[1].id

\* C10: createApp(type) yields the displayName, iconSrc and minSize of the
\* type, both flags false and zIndex one above the current maximum.
C10_FactoryTable ==
  last.op = "openApp" =>
    /\ Len(last.created) = 1
    /\ LET app == last.created[1]
       IN /\ app.type = last.type
          /\ app.isFullscreen = FALSE
          /\ app.isMinimalize = FALSE
          /\ app.zIndex = MaxZOf(last.apps) + 1
          /\ last.apps = <<>> => app.zIndex = 1
          /\ app.type = "calculator" =>
               /\ app.displayName = "Calculator"
               /\ app.iconSrc = "./calc-icon.png"
               /\ app.minSize = [width |-> "420px", height |-> "600px"]
          /\ app.type = "tasks" =>
               /\ app.displayName = "Tasks"
               /\ app.iconSrc = "./tasks-icon.png"
               /\ app.minSize = [width |-> "600px", height |-> "420px"]
          /\ app.type = "other-app" =>
               /\ app.displayName = "Other App"
               /\ app.iconSrc = "./vite.svg"
               /\ app.minSize = [width |-> "420px", height |-> "100px"]

C10_Witness ==
  /\ last.op = "openApp"
  /\ last.type = "calculator"
  /\ last.apps # <<>>
  /\ openedApps[Len(openedApps)].displayName = "Calculator"

\* the entity id of apps
Entity(apps, id) == CHOOSE app \in {apps[i] : i \in 1..Len(apps)} : app.id = id

\* the identifiers of apps, in order
IdSeq(apps) == [i \in 1..Len(apps) |-> apps[i].id]

\* the states of the end-to-end scenario
C11_CalculatorOnly(apps, focus) ==
  /\ Len(apps) = 1
  /\ apps[1].type = "calculator" /\ apps[1].zIndex = 1
  /\ ~apps[1].isMinimalize
  /\ focus = apps[1].id

C11_TasksOnTop(apps, focus, calculatorMinimized) ==
  /\ Len(apps) = 2
  /\ apps[1].type = "calculator" /\ apps[1].zIndex = 1
  /\ apps[1].isMinimalize = calculatorMinimized
  /\ apps[2].type = "tasks" /\ apps[2].zIndex = 2
  /\ ~apps[2].isMinimalize
  /\ focus = apps[2].id

C11_CalculatorRestored(apps, focus) ==
  /\ Len(apps) = 2
  /\ apps[1].type = "calculator" /\ apps[1].zIndex = 3
  /\ ~apps[1].isMinimalize
  /\ apps[2].type = "tasks" /\ apps[2].zIndex = 2
  /\ focus = apps[1].id
  /\ focus # apps[2].id

\* C11: from the empty registry, openApp('calculator') gives one focused
\* window with zIndex 1; openApp('tasks') gives a second, focused, zIndex 2;
\* setIsMinimalize(calculator, true) minimizes calculator and keeps focus on
\* tasks; the taskbar click on calculator leaves it un-minimized, zIndex 3
\* and focused, tasks at zIndex 2 and not focused.
C11_EndToEnd ==
  /\ (last.op = "openApp" /\ last.type = "calculator" /\ last.apps = <<>>)
       => C11_CalculatorOnly(openedApps, focusedWindowId)
  /\ (/\ last.op = "openApp" /\ last.type = "tasks"
      /\ C11_CalculatorOnly(last.apps, last.focus))
       => C11_TasksOnTop(openedApps, focusedWindowId, FALSE)
  /\ (/\ last.op = "setIsMinimalize" /\ last.val
      /\ C11_TasksOnTop(last.apps, last.focus, FALSE)
      /\ last.id = last.apps[1].id)
       => C11_TasksOnTop(openedApps, focusedWindowId, TRUE)
  /\ (/\ last.op = "minimalizedAppOnClick"
      /\ C11_TasksOnTop(last.apps, last.focus, TRUE)
      /\ last.id = last.apps[1].id)
       => C11_CalculatorRestored(openedApps, focusedWindowId)

C11_Witness ==
  /\ last.op = "minimalizedAppOnClick"
  /\ C11_TasksOnTop(last.apps, last.focus, TRUE)
  /\ last.id = last.apps[1].id
  /\ C11_CalculatorRestored(openedApps, focusedWindowId)

\* C12: focus(id) on an open window sets its zIndex to the largest open
\* zIndex plus one, also when it already had the largest, changes nothing
\* else in openedApps and sets focusedWindowId to id; focus(null) sets
\* focusedWindowId to null and leaves openedApps as it was.
C12_FocusRaises ==
  last.op = "focus" =>
    /\ last.id = NULL => (openedApps = last.apps /\ focusedWindowId = NULL)
    /\ last.id \in Ids(last.apps) =>
         /\ focusedWindowId = last.id
         /\ Len(openedApps) = Len(last.apps)
         /\ \A i \in 1..Len(last.apps) :
              openedApps[i] =
                IF last.apps[i].id = last.id
                THEN [last.apps[i] EXCEPT !.zIndex = MaxZOf(last.apps) + 1]
                ELSE last.apps[i]

C12_Witness ==
  /\ last.op = "focus"
  /\ last.id \in Ids(last.apps)
  /\ Len(last.apps) = 2
  /\ Entity(last.apps, last.id).zIndex = MaxZOf(last.apps)
  /\ Entity(openedApps, last.id).zIndex = MaxZOf(last.apps) + 1

\* C13: the taskbar click on an open window un-minimizes and focuses a
\* minimized window; else minimizes the focused window and clears focus;
\* else focuses the window, gives it the highest zIndex and keeps its
\* minimize flag.
C13_ToggleOutcomes ==
  last.op = "minimalizedAppOnClick" =>
    LET was == Entity(last.apps, last.id)
        now == Entity(openedApps, last.id)
    IN IF was.isMinimalize
       THEN ~now.isMinimalize /\ focusedWindowId = last.id
       ELSE IF last.focus = last.id
       THEN now.isMinimalize /\ focusedWindowId = NULL
       ELSE /\ focusedWindowId = last.id
            /\ now.zIndex = MaxZOf(openedApps)
            /\ now.isMinimalize = was.isMinimalize

\* C14: closeApp and closeAllApps leave focusedWindowId as it was, and
\* closeAllApps leaves openedApps empty.
C14_CloseKeepsFocus ==
  /\ last.op \in {"closeApp", "closeAllApps"} => focusedWindowId = last.focus
  /\ last.op = "closeAllApps" => openedApps = <<>>

C14_Witness ==
  /\ last.op = "closeApp"
  /\ last.id \in Ids(last.apps)
  /\ last.id = last.focus
  /\ focusedWindowId = last.id

\* C15: setIsMinimalize(id, false) leaves focusedWindowId as it was and
\* only sets the minimize flag of the matching entity to false.
C15_UnminimizeKeepsFocus ==
  (last.op = "setIsMinimalize" /\ ~last.val) =>
    /\ focusedWindowId = last.focus
    /\ Len(openedApps) = Len(last.apps)
    /\ \A i \in 1..Len(last.apps) :
         openedApps[i] =
           IF last.apps[i].id = last.id
           THEN [last.apps[i] EXCEPT !.isMinimalize = FALSE]
           ELSE last.apps[i]

\* C16: setIsFullscreen(id, value) changes only the isFullscreen flag of
\* the matching entity; focusedWindowId, the length and order of openedApps
\* and every other field stay as they were.
C16_FullscreenFrame ==
  last.op = "setIsFullscreen" =>
    /\ focusedWindowId = last.focus
    /\ Len(openedApps) = Len(last.apps)
    /\ \A i \in 1..Len(last.apps) :
         openedApps[i] =
           IF last.apps[i].id = last.id
           THEN [last.apps[i] EXCEPT !.isFullscreen = last.val]
           ELSE last.apps[i]

C16_Witness ==
  /\ last.op = "setIsFullscreen" /\ last.val
  /\ Len(last.apps) = 2
  /\ last.id = last.apps[1].id
  /\ last.apps[1].isMinimalize
  /\ ~last.apps[1].isFullscreen
  /\ openedApps[1].isFullscreen

C18_SequentialApps(apps, focus, id, isMinimalize) ==
  IF isMinimalize
  THEN LET unminimized == setIsMinimalizeUpdater(id, FALSE, apps)
       IN  increaseZIndex(unminimized, id, unminimized)
  ELSE IF id = focus
  THEN setIsMinimalizeUpdater(id, TRUE, apps)
  ELSE increaseZIndex(apps, id, apps)

C18_SequentialFocus(apps, focus, id, isMinimalize) ==
  IF isMinimalize THEN id
  ELSE IF id = focus THEN NULL
  ELSE id

\* C18: the actions minimalizedAppOnClick issues back-to-back from one
\* render snapshot leave the openedApps and focusedWindowId that the same
\* actions leave when each runs as its own transaction, and zIndex stays
\* unique.
C18_BatchEqualsSequential ==
  last.op = "minimalizedAppOnClick" =>
    /\ openedApps = C18_SequentialApps(last.apps, last.focus, last.id, last.val)
    /\ focusedWindowId =
         C18_SequentialFocus(last.apps, last.focus, last.id, last.val)
    /\ \A i, j \in 1..Len(openedApps) :
         i # j => openedApps[i].zIndex # openedApps[j].zIndex

\* C19: a focused open window has the strictly highest zIndex.
C19_FocusedIsFrontMost ==
  \A i, j \in 1..Len(openedApps) :
    (openedApps[i].id = focusedWindowId /\ i # j)
      => openedApps[i].zIndex > openedApps[j].zIndex

C19_Witness ==
  /\ Len(openedApps) = 2
  /\ openedApps[1].id = focusedWindowId
  /\ last.op \in {"focus", "minimalizedAppOnClick"}
  /\ last.id = focusedWindowId
  /\ last.focus # last.id

\* C20: the windows that stay open keep their relative order, and a new
\* window is placed after all of them.
C20_InsertionOrder ==
  /\ SelectSeq(IdSeq(openedApps), LAMBDA id : id \in Ids(last.apps))
       = SelectSeq(IdSeq(last.apps), LAMBDA id : id \in Ids(openedApps))
  /\ \A i, j \in 1..Len(openedApps) :
       (i < j /\ openedApps[j].id \in Ids(last.apps))
         => openedApps[i].id \in Ids(last.apps)
  /\ last.op = "openApp" =>
       /\ Len(openedApps) = Len(last.apps) + 1
       /\ openedApps[Len(openedApps)].id \notin Ids(last.apps)

C20_Witness ==
  /\ last.op = "focus"
  /\ Len(last.apps) = 2
  /\ last.id = last.apps[1].id
  /\ openedApps[1].id = last.id
  /\ openedApps[1].zIndex > openedApps[2].zIndex
====
